---- MODULE Spec2Model ----
(***************************************************************************)
(* Model of cot/src/middleware.rs: the response adapter (IntoCotResponse), *)
(* the error adapter (IntoCotError), the conditionally composed            *)
(* live-reload middleware (LiveReloadMiddleware) and the session           *)
(* middleware (SessionMiddleware).                                         *)
(*                                                                         *)
(* A service is a stack of stages, outermost first, over a next stage N.   *)
(* poll_ready and the future returned by call are folds over that stack:   *)
(* every stage maps the poll result of its inner stage.                    *)
(***************************************************************************)
EXTENDS Integers, Sequences, FiniteSets, TLC

VARIABLES
    config,       \* config().middlewares.live_reload.enabled
    middleware,   \* the LiveReloadMiddleware value: Unbuilt, or the Either layer it holds
    ctor,         \* history: constructor used and the config value it saw
    nextStage,    \* static types of the next stage N: [Error, Body]
    layers,       \* history: the layers applied so far, innermost first
    service,      \* the stack of stages produced, outermost first
    ready,        \* the last poll_ready of the service
    fut,          \* the future returned by the last call of the service
    completions,  \* how many times that future has resolved
    heap,         \* the MemoryStore values constructed so far
    sessionServices, \* the services produced by SessionMiddleware::layer
    lastLoad,     \* the last session load made through a session service
    lastSaved     \* history: what was last saved through each service

pipeVars == <<config, middleware, ctor, nextStage, layers, service, ready, fut, completions>>
sessVars == <<heap, sessionServices, lastLoad, lastSaved>>
vars == <<config, middleware, ctor, nextStage, layers, service, ready, fut,
          completions, heap, sessionServices, lastLoad, lastSaved>>

(***************************************************************************)
(* Bounds                                                                  *)
(***************************************************************************)
MaxLayers == 3
MaxSessionServices == 2

(***************************************************************************)
(* Errors, bodies, responses, requests                                     *)
(***************************************************************************)
ForeignError == <<"Foreign", "io">>
CotErrors == { <<"Cot", "not_found">>, <<"MiddlewareWrapped", ForeignError>> }

NextErrors(errorType) == IF errorType = "Foreign" THEN {ForeignError} ELSE CotErrors

\* Number of directly nested MiddlewareWrapped layers at the top of an error.
RECURSIVE WrapDepth(_)
WrapDepth(error) ==
    IF error[1] = "MiddlewareWrapped" THEN 1 + WrapDepth(error[2]) ELSE 0

Data(bytes) == <<"data", bytes>>
Failure(error) == <<"error", error>>

FrameSeqs(bodyType) ==
    { <<>>,
      <<Data("a"), Data("b")>>,
      <<Data("b"), Failure(IF bodyType = "Cot" THEN <<"Cot", "not_found">>
                                                ELSE ForeignError)>> }

NextResponses(bodyType) ==
    { [status |-> s, headers |-> h, body |-> [repr |-> bodyType, frames |-> f]] :
        s \in {200, 404}, h \in {"text/html", "application/json"},
        f \in FrameSeqs(bodyType) }

LongPollPath == "/_tower-livereload/long-poll"
Requests == { [path |-> "/"], [path |-> LongPollPath] }

Pending == <<"Pending">>
Ready(result) == <<"Ready", result>>
Ok(value) == <<"Ok", value>>
Err(error) == <<"Err", error>>

IsReady(p) == p[1] = "Ready"
IsOk(p) == IsReady(p) /\ p[2][1] = "Ok"
IsErr(p) == IsReady(p) /\ p[2][1] = "Err"
Value(p) == p[2][2]

\* What the next stage N can answer to poll_ready and to a poll of its future.
NextReadiness == {Pending, Ready(Ok("unit"))} \cup
                 { Ready(Err(e)) : e \in NextErrors(nextStage.Error) }
NextOutcomes == {Pending} \cup
                { Ready(Ok(r)) : r \in NextResponses(nextStage.Body) } \cup
                { Ready(Err(e)) : e \in NextErrors(nextStage.Error) }

(***************************************************************************)
(* The adapters                                                            *)
(***************************************************************************)
map_err(error) == <<"MiddlewareWrapped", error>>

\* body.map_err(map_err): data frames are forwarded, error frames normalised.
BodyMapErr(frames) ==
    [ i \in 1..Len(frames) |->
        IF frames[i][1] = "error" THEN Failure(map_err(frames[i][2])) ELSE frames[i] ]

\* Variant: the response is rebuilt around the new body with a default head.
map_response_rebuilt(response) ==
    [status |-> 200, headers |-> response.headers,
     body |-> [repr |-> "Cot", frames |-> BodyMapErr(response.body.frames)]]

map_response(response) ==
    [response EXCEPT !.body = [repr |-> "Cot", frames |-> BodyMapErr(response.body.frames)]]

IntoCotResponse_poll_ready(inner) == inner

\* Variant: a failure of the inner stage is answered with an empty response.
IntoCotResponse_call_swallow(inner) ==
    IF IsOk(inner) THEN Ready(Ok(map_response(Value(inner))))
    ELSE IF IsErr(inner)
         THEN Ready(Ok([status |-> 500, headers |-> "text/html",
                        body |-> [repr |-> "Cot", frames |-> <<>>]]))
    ELSE inner

IntoCotResponse_call(inner) ==
    IF IsOk(inner) THEN Ready(Ok(map_response(Value(inner)))) ELSE inner

\* Variant: a pending inner stage is reported as ready.
IntoCotError_poll_ready_eager(inner) ==
    IF inner = Pending THEN Ready(Ok("unit"))
    ELSE IF IsErr(inner) THEN Ready(Err(map_err(Value(inner)))) ELSE inner

IntoCotError_poll_ready(inner) ==
    IF IsErr(inner) THEN Ready(Err(map_err(Value(inner)))) ELSE inner

\* Variant: the future is returned without map_err.
IntoCotError_call_unmapped(inner) == inner

IntoCotError_call(inner) ==
    IF IsErr(inner) THEN Ready(Err(map_err(Value(inner)))) ELSE inner

(***************************************************************************)
(* The reload stage of tower_livereload (an external collaborator): it     *)
(* answers the long-poll endpoint itself and injects the client snippet    *)
(* into outgoing HTML responses; errors of its inner stage pass through.   *)
(***************************************************************************)
LongPollResponse ==
    [status |-> 200, headers |-> "text/event-stream",
     body |-> [repr |-> "LiveReload", frames |-> <<>>]]

Inject(response) ==
    [response EXCEPT !.body =
        [repr |-> "LiveReload",
         frames |-> IF response.headers = "text/html"
                    THEN <<Data("<script>")>> \o response.body.frames
                    ELSE response.body.frames]]

LiveReload_poll_ready(inner) == inner

LiveReload_call(inner) ==
    IF IsOk(inner) THEN Ready(Ok(Inject(Value(inner)))) ELSE inner

\* tower::util::Either delegates to whichever branch it holds.
Either_poll_ready(inner) == inner
Either_call(inner) == inner

(***************************************************************************)
(* Layers: each turns an inner stack into a new stack, outermost first.    *)
(***************************************************************************)
IntoCotResponseLayer_layer(inner) == <<"IntoCotResponse">> \o inner
IntoCotErrorLayer_layer(inner) == <<"IntoCotError">> \o inner
LiveReloadLayer_layer(inner) == <<"LiveReload">> \o inner

ApplyLayer(layer, inner) ==
    CASE layer = "IntoCotErrorLayer" -> IntoCotErrorLayer_layer(inner)
      [] layer = "IntoCotResponseLayer" -> IntoCotResponseLayer_layer(inner)
      [] layer = "LiveReloadLayer" -> LiveReloadLayer_layer(inner)

\* A tuple of layers applies its first element outermost.
RECURSIVE TupleLayer(_, _)
TupleLayer(tuple, inner) ==
    IF tuple = <<>> THEN inner
    ELSE ApplyLayer(Head(tuple), TupleLayer(Tail(tuple), inner))

Unbuilt == <<"Unbuilt", <<>>>>

\* Variant: the flag is ignored.
with_enabled_always(enabled) ==
    <<"Left", <<"IntoCotErrorLayer", "IntoCotResponseLayer", "LiveReloadLayer">>>>

\* Variant: the two adapters are listed in the other order.
with_enabled_swapped(enabled) ==
    IF enabled
    THEN <<"Left", <<"IntoCotResponseLayer", "IntoCotErrorLayer", "LiveReloadLayer">>>>
    ELSE <<"Right", <<>>>>

\* option_layer(enabled.then(|| (error, response, reload))):
\* Some(l) is Either::Left(l), None is Either::Right(Identity).
with_enabled(enabled) ==
    IF enabled
    THEN <<"Left", <<"IntoCotErrorLayer", "IntoCotResponseLayer", "LiveReloadLayer">>>>
    ELSE <<"Right", <<>>>>

LiveReloadMiddleware_new == with_enabled(TRUE)
LiveReloadMiddleware_default == LiveReloadMiddleware_new
LiveReloadMiddleware_from_context(enabled) == with_enabled(enabled)

\* Variant: the branch is chosen from the configuration at every layer call.
LiveReloadMiddleware_layer_reread(self, inner) ==
    LET now == IF config
               THEN <<"Left", <<"IntoCotErrorLayer", "IntoCotResponseLayer", "LiveReloadLayer">>>>
               ELSE <<"Right", <<>>>>
    IN  <<"Either" \o now[1]>> \o TupleLayer(now[2], inner)

\* self.0.layer(inner): the Either layer builds the Either service of its branch.
LiveReloadMiddleware_layer(self, inner) ==
    <<"Either" \o self[1]>> \o TupleLayer(self[2], inner)

(***************************************************************************)
(* Sessions: SessionMiddleware::layer and the in-memory store              *)
(***************************************************************************)
SessionIds == {"s1", "s2"}
SessionData == {"d1", "d2"}

\* MemoryStore::default(): no session is stored.
EmptyStore == [id \in SessionIds |-> "None"]

\* Variant: one store is shared by every service the middleware produces.
SessionMiddleware_layer_shared(stores) ==
    IF stores = <<>> THEN [heap |-> <<EmptyStore>>, service |-> [store |-> 1]]
    ELSE [heap |-> stores, service |-> [store |-> 1]]

\* layer(inner): a store is constructed and handed to the service produced.
SessionMiddleware_layer(stores) ==
    [heap |-> Append(stores, EmptyStore), service |-> [store |-> Len(stores) + 1]]

\* The store contract: save(session) and load(id).
MemoryStore_save(store, id, data) == [store EXCEPT ![id] = data]
MemoryStore_load(store, id) == store[id]

\* The static error and body types of a stack over the next stage.
RECURSIVE ErrorType(_, _)
ErrorType(stack, next) ==
    IF stack = <<>> THEN next.Error
    ELSE IF Head(stack) \in {"IntoCotError", "EitherLeft", "EitherRight"} THEN "Cot"
    ELSE ErrorType(Tail(stack), next)

RECURSIVE BodyType(_, _)
BodyType(stack, next) ==
    IF stack = <<>> THEN next.Body
    ELSE IF Head(stack) \in {"IntoCotResponse", "EitherLeft", "EitherRight"} THEN "Cot"
    ELSE IF Head(stack) = "LiveReload" THEN "LiveReload"
    ELSE BodyType(Tail(stack), next)

(***************************************************************************)
(* Folding a poll result outwards through a stack                          *)
(***************************************************************************)
StagePoll(op, stage, inner) ==
    CASE stage = "IntoCotError" ->
            IF op = "poll_ready" THEN IntoCotError_poll_ready(inner)
                                 ELSE IntoCotError_call(inner)
      [] stage = "IntoCotResponse" ->
            IF op = "poll_ready" THEN IntoCotResponse_poll_ready(inner)
                                 ELSE IntoCotResponse_call(inner)
      [] stage = "LiveReload" ->
            IF op = "poll_ready" THEN LiveReload_poll_ready(inner)
                                 ELSE LiveReload_call(inner)
      [] stage \in {"EitherLeft", "EitherRight"} ->
            IF op = "poll_ready" THEN Either_poll_ready(inner)
                                 ELSE Either_call(inner)

\* The stages a poll result crosses, innermost first, with what each one
\* received from its inner stage and what it handed to its outer stage.
RECURSIVE Unwind(_, _, _)
Unwind(op, stack, innermost) ==
    IF stack = <<>> THEN <<>>
    ELSE LET below == Unwind(op, Tail(stack), innermost)
             in == IF below = <<>> THEN innermost ELSE below[Len(below)].out
         IN  Append(below, [stage |-> Head(stack), in |-> in,
                            out |-> StagePoll(op, Head(stack), in)])

Outermost(trail, innermost) ==
    IF trail = <<>> THEN innermost ELSE trail[Len(trail)].out

\* The stages a request reaches, outermost first: a reload stage answers the
\* long-poll endpoint itself, every other stage delegates to its inner stage.
RECURSIVE Reached(_, _)
Reached(stack, request) ==
    IF stack = <<>> THEN <<"Next">>
    ELSE IF Head(stack) = "LiveReload" /\ request.path = LongPollPath
         THEN <<"LiveReload">>
    ELSE <<Head(stack)>> \o Reached(Tail(stack), request)

Terminal(reached) == reached[Len(reached)]
\* The stages above the one that produces the outcome.
Wrapping(reached) == SubSeq(reached, 1, Len(reached) - 1)

TerminalOutcomes(terminal) ==
    IF terminal = "Next" THEN NextOutcomes
    ELSE {Pending, Ready(Ok(LongPollResponse))}

AnyOutcomes == TerminalOutcomes("Next") \cup TerminalOutcomes("LiveReload")

(***************************************************************************)
(* The pipeline: construction, layering, poll_ready, call and polling      *)
(***************************************************************************)
NotPolled == [polled |-> FALSE, inner |-> Pending, outer |-> Pending, trail |-> <<>>]
NoFuture == [state |-> "None", request |-> [path |-> "/"], reached |-> <<>>,
             inner |-> Pending, outer |-> Pending, trail |-> <<>>]

InitSession ==
    /\ heap = <<>>
    /\ sessionServices = <<>>
    /\ lastLoad = [service |-> 0, id |-> "none", session |-> "None", saved |-> "None"]
    /\ lastSaved = <<>>

InitPipeline ==
    /\ config \in BOOLEAN
    /\ middleware = Unbuilt
    /\ ctor = [via |-> "none", config |-> FALSE]
    /\ nextStage \in [Error : {"Foreign", "Cot"}, Body : {"Generic", "Cot"}]
    /\ layers = <<>>
    /\ service = <<>>
    /\ ready = NotPolled
    /\ fut = NoFuture
    /\ completions = 0

Init == InitPipeline /\ InitSession

\* The configuration is loaded or changed outside this file.
SetConfig(enabled) ==
    /\ enabled # config
    /\ config' = enabled
    /\ UNCHANGED <<middleware, ctor, nextStage, layers, service, ready, fut, completions>>
    /\ UNCHANGED sessVars

New ==
    /\ middleware = Unbuilt
    /\ middleware' = LiveReloadMiddleware_new
    /\ ctor' = [via |-> "new", config |-> config]
    /\ UNCHANGED <<config, nextStage, layers, service, ready, fut, completions>>
    /\ UNCHANGED sessVars

Default ==
    /\ middleware = Unbuilt
    /\ middleware' = LiveReloadMiddleware_default
    /\ ctor' = [via |-> "default", config |-> config]
    /\ UNCHANGED <<config, nextStage, layers, service, ready, fut, completions>>
    /\ UNCHANGED sessVars

FromContext ==
    /\ middleware = Unbuilt
    /\ middleware' = LiveReloadMiddleware_from_context(config)
    /\ ctor' = [via |-> "from_context", config |-> config]
    /\ UNCHANGED <<config, nextStage, layers, service, ready, fut, completions>>
    /\ UNCHANGED sessVars

\* A layer is applied to a service nobody is calling; the service it
\* produces has not been polled yet.
CanLayer == Len(layers) < MaxLayers /\ fut.state = "None"

LayerIntoCotError ==
    /\ CanLayer
    /\ service' = IntoCotErrorLayer_layer(service)
    /\ layers' = Append(layers, "IntoCotErrorLayer")
    /\ ready' = NotPolled
    /\ UNCHANGED <<config, middleware, ctor, nextStage, fut, completions>>
    /\ UNCHANGED sessVars

LayerIntoCotResponse ==
    /\ CanLayer
    /\ service' = IntoCotResponseLayer_layer(service)
    /\ layers' = Append(layers, "IntoCotResponseLayer")
    /\ ready' = NotPolled
    /\ UNCHANGED <<config, middleware, ctor, nextStage, fut, completions>>
    /\ UNCHANGED sessVars

\* Either<A, S> is a service only if S has A's response and error types,
\* which are the canonical ones.
LayerLiveReload ==
    /\ CanLayer
    /\ middleware # Unbuilt
    /\ ErrorType(service, nextStage) = "Cot"
    /\ BodyType(service, nextStage) = "Cot"
    /\ service' = LiveReloadMiddleware_layer(middleware, service)
    /\ layers' = Append(layers, "LiveReloadMiddleware")
    /\ ready' = NotPolled
    /\ UNCHANGED <<config, middleware, ctor, nextStage, fut, completions>>
    /\ UNCHANGED sessVars

PollReady(innermost) ==
    /\ fut.state = "None"
    /\ LET trail == Unwind("poll_ready", service, innermost)
       IN  ready' = [polled |-> TRUE, inner |-> innermost,
                     outer |-> Outermost(trail, innermost), trail |-> trail]
    /\ UNCHANGED <<config, middleware, ctor, nextStage, layers, service, fut, completions>>
    /\ UNCHANGED sessVars

\* call is made on a service that reported ready; it returns the future.
Call(request) ==
    /\ fut.state = "None"
    /\ ready.polled /\ ready.outer = Ready(Ok("unit"))
    /\ fut' = [state |-> "Pending", request |-> request,
               reached |-> Reached(service, request),
               inner |-> Pending, outer |-> Pending, trail |-> <<>>]
    /\ completions' = 0
    /\ ready' = NotPolled
    /\ UNCHANGED <<config, middleware, ctor, nextStage, layers, service>>
    /\ UNCHANGED sessVars

\* One poll of the future: the stage that produces the outcome is polled and
\* each stage above it maps what its inner future returned.
Poll(innermost) ==
    /\ fut.state = "Pending"
    /\ innermost \in TerminalOutcomes(Terminal(fut.reached))
    /\ LET trail == Unwind("call", Wrapping(fut.reached), innermost)
           outer == Outermost(trail, innermost)
       IN  /\ fut' = [fut EXCEPT !.state = IF IsReady(outer) THEN "Ready" ELSE "Pending",
                                 !.inner = innermost, !.outer = outer, !.trail = trail]
           /\ completions' = completions + (IF IsReady(outer) THEN 1 ELSE 0)
    /\ UNCHANGED <<config, middleware, ctor, nextStage, layers, service, ready>>
    /\ UNCHANGED sessVars

\* The caller takes the outcome; the service can be polled and called again.
Take ==
    /\ fut.state = "Ready"
    /\ fut' = NoFuture
    /\ completions' = 0
    /\ UNCHANGED <<config, middleware, ctor, nextStage, layers, service, ready>>
    /\ UNCHANGED sessVars

Next ==
    \/ \E enabled \in BOOLEAN : SetConfig(enabled)
    \/ New
    \/ Default
    \/ FromContext
    \/ LayerIntoCotError
    \/ LayerIntoCotResponse
    \/ LayerLiveReload
    \/ \E innermost \in NextReadiness : PollReady(innermost)
    \/ \E request \in Requests : Call(request)
    \/ \E innermost \in AnyOutcomes : Poll(innermost)
    \/ Take

Spec == Init /\ [][Next]_vars

(***************************************************************************)
(* Session services                                                        *)
(***************************************************************************)
SessionLayer ==
    /\ Len(sessionServices) < MaxSessionServices
    /\ LET made == SessionMiddleware_layer(heap)
       IN  /\ heap' = made.heap
           /\ sessionServices' = Append(sessionServices, made.service)
    /\ lastSaved' = Append(lastSaved, [id \in SessionIds |-> "None"])
    /\ UNCHANGED lastLoad
    /\ UNCHANGED pipeVars

\* A request through service s whose handler mutates session id.
SessionSave(s, id, data) ==
    /\ s \in DOMAIN sessionServices
    /\ LET at == sessionServices[s].store
       IN  heap' = [heap EXCEPT ![at] = MemoryStore_save(heap[at], id, data)]
    /\ lastSaved' = [lastSaved EXCEPT ![s][id] = data]
    /\ UNCHANGED <<sessionServices, lastLoad>>
    /\ UNCHANGED pipeVars

\* A request through service s that carries session identifier id.
SessionLoad(s, id) ==
    /\ s \in DOMAIN sessionServices
    /\ lastLoad' = [service |-> s, id |-> id,
                    session |-> MemoryStore_load(heap[sessionServices[s].store], id),
                    saved |-> lastSaved[s][id]]
    /\ UNCHANGED <<heap, sessionServices, lastSaved>>
    /\ UNCHANGED pipeVars

InitIdlePipeline ==
    /\ config = FALSE
    /\ middleware = Unbuilt
    /\ ctor = [via |-> "none", config |-> FALSE]
    /\ nextStage = [Error |-> "Cot", Body |-> "Cot"]
    /\ layers = <<>>
    /\ service = <<>>
    /\ ready = NotPolled
    /\ fut = NoFuture
    /\ completions = 0

InitSessions == InitIdlePipeline /\ InitSession

NextSession ==
    \/ SessionLayer
    \/ \E s \in 1..MaxSessionServices, id \in SessionIds, data \in SessionData :
          SessionSave(s, id, data)
    \/ \E s \in 1..MaxSessionServices, id \in SessionIds : SessionLoad(s, id)

SpecSession == InitSessions /\ [][NextSession]_vars


(***************************************************************************)
(* Properties                                                              *)
(***************************************************************************)
Crossings(trail, stage) == { i \in DOMAIN trail : trail[i].stage = stage }

\* C1: IntoCotError::call hands a success of its inner stage on unchanged and
\* turns a failure E of its inner stage into the MiddlewareWrapped error whose
\* source is E; a failure never becomes a success and is never lost.
C1_ErrorAdapterCall ==
    \A i \in Crossings(fut.trail, "IntoCotError") :
        LET in == fut.trail[i].in
            out == fut.trail[i].out
        IN  /\ IsOk(in) => out = in
            /\ IsErr(in) => out = Ready(Err(<<"MiddlewareWrapped", Value(in)>>))
            /\ in = Pending => out = Pending

C1_Witness ==
    /\ fut.state = "Ready"
    /\ \E i \in Crossings(fut.trail, "IntoCotError") :
          /\ IsErr(fut.trail[i].in)
          /\ Value(fut.trail[i].in) = ForeignError
    /\ layers = <<"IntoCotErrorLayer">>

\* C2: poll_ready of IntoCotResponse is the poll_ready of its inner stage, and
\* poll_ready of IntoCotError is too, except that a readiness failure E
\* surfaces as MiddlewareWrapped{source: E}; neither reports ready while its
\* inner stage is pending.
C2_ReadinessPassThrough ==
    /\ \A i \in Crossings(ready.trail, "IntoCotResponse") :
          ready.trail[i].out = ready.trail[i].in
    /\ \A i \in Crossings(ready.trail, "IntoCotError") :
          LET in == ready.trail[i].in
              out == ready.trail[i].out
          IN  /\ IsOk(out) <=> IsOk(in)
              /\ out = Pending <=> in = Pending
              /\ IsErr(in) => out = Ready(Err(<<"MiddlewareWrapped", Value(in)>>))
              /\ IsErr(out) => IsErr(in)

C2_Witness ==
    /\ ready.polled
    /\ ready.inner = Pending
    /\ Crossings(ready.trail, "IntoCotError") # {}
    /\ Crossings(ready.trail, "IntoCotResponse") # {}

\* The middleware was built with the enablement flag false and layered
\* directly over the next stage.
DisabledOverNext ==
    /\ ctor.via = "from_context" /\ ~ctor.config
    /\ layers = <<"LiveReloadMiddleware">>

AdapterStages == {"IntoCotError", "IntoCotResponse", "LiveReload"}

\* C3: a pipeline built with the flag false over a next stage N reports the
\* readiness of N and resolves to the outcome of N on the same request; the
\* error adapter, the response adapter and the reload stage are not part of
\* the service and are never reached.
C3_DisabledIsNext ==
    DisabledOverNext =>
        /\ \A i \in DOMAIN service : service[i] \notin AdapterStages
        /\ ready.polled => ready.outer = ready.inner
        /\ fut.state # "None" =>
              /\ Terminal(fut.reached) = "Next"
              /\ \A i \in DOMAIN fut.reached : fut.reached[i] \notin AdapterStages
              /\ fut.outer = fut.inner

C3_Witness ==
    /\ DisabledOverNext
    /\ fut.state = "Ready"
    /\ fut.request.path = LongPollPath
    /\ IsErr(fut.outer)
    /\ Value(fut.outer) = <<"MiddlewareWrapped", ForeignError>>

\* C4: an error that has crossed the error adapter, however often, carries at
\* most one MiddlewareWrapped layer.
C4_AtMostOneWrap ==
    (fut.state = "Ready" /\ IsErr(fut.outer)) => WrapDepth(Value(fut.outer)) <= 1

\* C5: a call produces exactly one outcome: the returned future resolves once,
\* exactly when the future of the stage that answers resolves, and at every
\* stage a success stays a success and a failure stays a failure.
C5_OneOutcome ==
    /\ fut.state = "Ready" <=> IsReady(fut.inner)
    /\ IsOk(fut.outer) <=> IsOk(fut.inner)
    /\ IsErr(fut.outer) <=> IsErr(fut.inner)
    /\ fut.outer = Pending <=> fut.inner = Pending
    /\ completions = (IF fut.state = "Ready" THEN 1 ELSE 0)
    /\ \A i \in DOMAIN fut.trail :
          /\ IsOk(fut.trail[i].out) <=> IsOk(fut.trail[i].in)
          /\ IsErr(fut.trail[i].out) <=> IsErr(fut.trail[i].in)

C5_Witness ==
    /\ fut.state = "Ready"
    /\ IsErr(fut.inner)
    /\ Crossings(fut.trail, "IntoCotResponse") # {}
    /\ Crossings(fut.trail, "IntoCotError") # {}
    /\ Crossings(fut.trail, "EitherLeft") # {}

\* C6: IntoCotResponse leaves status and headers of a successful inner
\* response alone, and the adapted body yields the data chunks of the inner
\* body, the same bytes at the same positions.
C6_OnlyBodyRepresentation ==
    \A i \in Crossings(fut.trail, "IntoCotResponse") :
        IsOk(fut.trail[i].in) =>
            LET in == Value(fut.trail[i].in)
                out == Value(fut.trail[i].out)
            IN  /\ IsOk(fut.trail[i].out)
                /\ out.status = in.status
                /\ out.headers = in.headers
                /\ Len(out.body.frames) = Len(in.body.frames)
                /\ \A k \in DOMAIN in.body.frames :
                      /\ in.body.frames[k][1] = "data" =>
                            out.body.frames[k] = in.body.frames[k]
                      /\ in.body.frames[k][1] = "error" =>
                            out.body.frames[k][1] = "error"

C6_Witness ==
    \E i \in Crossings(fut.trail, "IntoCotResponse") :
        /\ IsOk(fut.trail[i].in)
        /\ Value(fut.trail[i].in).status = 404
        /\ Value(fut.trail[i].in).body.frames = <<Data("a"), Data("b")>>
        /\ Value(fut.trail[i].in).body.repr # Value(fut.trail[i].out).body.repr

\* C8: in an enabled live-reload pipeline the request reaches the error
\* adapter, then the response adapter, then the reload stage, then what lies
\* below; the outcome comes back through the same stages in reverse, so the
\* error adapter receives a response whose body is already adapted and is the
\* last of the three to handle a failure.
C8_NestingOrder ==
    /\ \A i \in DOMAIN service :
          service[i] = "EitherLeft" =>
              /\ i + 3 <= Len(service)
              /\ SubSeq(service, i + 1, i + 3) =
                    <<"IntoCotError", "IntoCotResponse", "LiveReload">>
    /\ \A i \in DOMAIN fut.reached :
          fut.reached[i] = "EitherLeft" =>
              /\ i + 3 <= Len(fut.reached)
              /\ SubSeq(fut.reached, i + 1, i + 3) =
                    <<"IntoCotError", "IntoCotResponse", "LiveReload">>
    /\ fut.trail # <<>> => Len(fut.trail) = Len(fut.reached) - 1
    /\ \A j \in DOMAIN fut.trail :
          /\ fut.trail[j].stage = fut.reached[Len(fut.reached) - j]
          /\ fut.trail[j].in = (IF j = 1 THEN fut.inner ELSE fut.trail[j - 1].out)
          /\ fut.trail[j].stage = "EitherLeft" =>
                /\ j >= 3
                /\ fut.trail[j - 1].stage = "IntoCotError"
                /\ fut.trail[j - 2].stage = "IntoCotResponse"
                /\ IsOk(fut.trail[j - 1].in) =>
                      Value(fut.trail[j - 1].in).body.repr = "Cot"
                /\ IsErr(fut.trail[j - 2].in) =>
                      fut.trail[j].out =
                          Ready(Err(<<"MiddlewareWrapped", Value(fut.trail[j - 2].in)>>))

C8_Witness ==
    /\ fut.state = "Ready"
    /\ fut.reached = <<"EitherLeft", "IntoCotError", "IntoCotResponse", "LiveReload", "Next">>
    /\ IsOk(fut.outer)
    /\ Value(fut.outer).headers = "text/html"
    /\ Len(Value(fut.outer).body.frames) = 3

EitherStages == {"EitherLeft", "EitherRight"}

BranchOfConstruction ==
    IF ctor.via \in {"new", "default"} \/ (ctor.via = "from_context" /\ ctor.config)
    THEN "Left" ELSE "Right"

\* C9: the branch of a LiveReloadMiddleware is chosen when it is constructed
\* (new and default: enabled; from_context: the configuration value at that
\* moment) and never changes; every service it produces, and every call of
\* such a service, follows that branch whatever the configuration becomes.
C9_BranchFixedAtConstruction ==
    /\ [](middleware # Unbuilt =>
            /\ middleware[1] = BranchOfConstruction
            /\ \A i \in DOMAIN service :
                  service[i] \in EitherStages =>
                      service[i] = "Either" \o BranchOfConstruction
            /\ \A i \in DOMAIN fut.reached :
                  fut.reached[i] \in EitherStages =>
                      fut.reached[i] = "Either" \o BranchOfConstruction
            /\ (\E i \in DOMAIN fut.reached : fut.reached[i] = "LiveReload")
                  => BranchOfConstruction = "Left")
    /\ [][middleware # Unbuilt => (middleware' = middleware /\ ctor' = ctor)]_vars

C9_Witness ==
    /\ ctor.via = "from_context"
    /\ config # ctor.config
    /\ ~ctor.config
    /\ Len(layers) = 2
    /\ layers[2] = "LiveReloadMiddleware"
    /\ fut.state = "Ready"

\* C10: every call of SessionMiddleware::layer constructs a new, empty store:
\* what a service's store holds is what was saved through that service, so
\* requests through one service share their sessions and a session saved
\* through one service is never loaded through another.
C10_StorePerLayerCall ==
    /\ Len(heap) = Len(sessionServices)
    /\ \A s, t \in DOMAIN sessionServices :
          s # t => sessionServices[s].store # sessionServices[t].store
    /\ \A s \in DOMAIN sessionServices : \A id \in SessionIds :
          heap[sessionServices[s].store][id] = lastSaved[s][id]
    /\ lastLoad.session = lastLoad.saved

C10_Witness ==
    /\ Len(sessionServices) = 2
    /\ lastLoad.service = 2
    /\ lastLoad.session = "None"
    /\ lastSaved[1][lastLoad.id] = "d1"
    /\ lastSaved[2]["s2"] = "d2"

====
